---- MODULE Spec2Model ----
(***************************************************************************)
(* The session write model of internal/command/session_model.go: the       *)
(* projection SessionWriteModel, the fold Reduce over the buffered events, *)
(* and the derived queries AuthenticationTime and AuthMethodTypes.         *)
(***************************************************************************)
EXTENDS Integers, Sequences, FiniteSets, TLC

\* ---------------------------------------------------------------- bounds
\* Longest event log of the session aggregate that is explored.
MaxEvents == 3
\* time.Time values are 0..MaxTime; 0 is the zero time.
MaxTime == 2

\* ------------------------------------------------------------ value sets
\* The zero value of time.Time (var authTime time.Time; IsZero()).
ZeroTime == 0
Times == ZeroTime..MaxTime

\* user ids of UserCheckedEvent payloads; "" is a payload without user id
UserIDs == {"", "u1", "u2"}
\* token ids of TokenSetEvent payloads
TokenIDs == {"tok1", "tok2"}
\* session ids and resource owners NewSessionWriteModel is called with; ""
\* is an unknown resource owner
SessionIDs == {"s1", "s2"}
ResourceOwners == {"", "org1"}
\* the session and owner the write model of Spec is created for
TheSessionID == "s1"
TheResourceOwner == "org1"
\* keys and values of MetadataSetEvent payloads
MetadataKeys == {"k1", "k2"}
MetadataValues == {"v1", "v2"}

\* domain.SessionState (iota order: unspecified, active, terminated)
SessionStateUnspecified == 0
SessionStateActive == 1
SessionStateTerminated == 2

\* domain.UserAuthMethodType values that AuthMethodTypes can report
UserAuthMethodTypePassword == "Password"
UserAuthMethodTypePasswordless == "Passwordless"
UserAuthMethodTypeU2F == "U2F"
UserAuthMethodTypeIDP == "IDP"
UserAuthMethodTypeTOTP == "TOTP"

\* Payloads of WebAuthNChallengedEvent: the four fields copied by
\* reduceWebAuthNChallenged.  The payloads differ in every field.
ChallengePayloads ==
    { [Challenge |-> "c1", AllowedCrentialIDs |-> <<"cred1">>,
       UserVerification |-> "required", RPID |-> "rp1"],
      [Challenge |-> "c2", AllowedCrentialIDs |-> <<"cred2", "cred3">>,
       UserVerification |-> "discouraged", RPID |-> "rp2"] }

\* ---------------------------------------------------------------- events
\* The events of the session aggregate at position n of its stream.  The
\* field type is the concrete Go type the switch of Reduce dispatches on.
AddedEvents(n) == [type : {"AddedEvent"}, Sequence : {n}]
UserCheckedEvents(n) ==
    [type : {"UserCheckedEvent"}, Sequence : {n}, UserID : UserIDs, CheckedAt : Times]
PasswordCheckedEvents(n) ==
    [type : {"PasswordCheckedEvent"}, Sequence : {n}, CheckedAt : Times]
IntentCheckedEvents(n) ==
    [type : {"IntentCheckedEvent"}, Sequence : {n}, CheckedAt : Times]
WebAuthNChallengedEvents(n) ==
    [type : {"WebAuthNChallengedEvent"}, Sequence : {n}, Payload : ChallengePayloads]
WebAuthNCheckedEvents(n) ==
    [type : {"WebAuthNCheckedEvent"}, Sequence : {n}, CheckedAt : Times,
     UserVerified : BOOLEAN]
TOTPCheckedEvents(n) ==
    [type : {"TOTPCheckedEvent"}, Sequence : {n}, CheckedAt : Times]
TokenSetEvents(n) ==
    [type : {"TokenSetEvent"}, Sequence : {n}, TokenID : TokenIDs]
MetadataSetEvents(n) ==
    [type : {"MetadataSetEvent"}, Sequence : {n}, Key : MetadataKeys,
     Value : MetadataValues]
TerminateEvents(n) == [type : {"TerminateEvent"}, Sequence : {n}]
\* an event of a Go type the switch of Reduce has no case for
OtherEvents(n) == [type : {"OtherEvent"}, Sequence : {n}]

\* the four kinds of check that count as authentication
CheckEvents(n) ==
    PasswordCheckedEvents(n) \cup WebAuthNCheckedEvents(n)
        \cup TOTPCheckedEvents(n) \cup IntentCheckedEvents(n)

EventsAt(n) ==
    AddedEvents(n) \cup UserCheckedEvents(n) \cup CheckEvents(n)
        \cup WebAuthNChallengedEvents(n) \cup TokenSetEvents(n)
        \cup MetadataSetEvents(n) \cup TerminateEvents(n) \cup OtherEvents(n)

\* ----------------------------------------------------------------- state
VARIABLES
    wm,         \* the SessionWriteModel
    log,        \* every event handed to the write model so far, in order
    reduceErr,  \* what the last call of Reduce returned ("none" before any)
    batches,    \* the sizes of the non-empty buffers Reduce folded, in order
    store,      \* the stream of the session aggregate in the event log
    cmd,        \* per command execution: where it is and the position it saw
    outcomes    \* every conditioned append made: who, on which position, result

vars == <<wm, log, reduceErr, batches, store, cmd, outcomes>>

\* A nil *WebAuthNChallengeModel is the empty sequence, a pointer to a
\* model m is <<m>>.
Nil == <<>>

\* make(map[string][]byte)
EmptyMap == [k \in {} |-> "v1"]

NewSessionWriteModel(sessionID, resourceOwner) ==
    [ AggregateID          |-> sessionID,
      ResourceOwner        |-> resourceOwner,
      Events               |-> <<>>,
      ProcessedSequence    |-> 0,
      TokenID              |-> "",
      UserID               |-> "",
      UserCheckedAt        |-> ZeroTime,
      PasswordCheckedAt    |-> ZeroTime,
      IntentCheckedAt      |-> ZeroTime,
      WebAuthNCheckedAt    |-> ZeroTime,
      TOTPCheckedAt        |-> ZeroTime,
      WebAuthNUserVerified |-> FALSE,
      Metadata             |-> EmptyMap,
      State                |-> SessionStateUnspecified,
      WebAuthNChallenge    |-> Nil ]

\* ------------------------------------------------------------- reducers
reduceAdded(w, e) == [w EXCEPT !.State = SessionStateActive]

\* variant: the user id is kept once it is set
reduceUserChecked_FirstWins(w, e) ==
    [w EXCEPT !.UserID = IF w.UserID = "" THEN e.UserID ELSE w.UserID,
              !.UserCheckedAt = e.CheckedAt]

reduceUserChecked(w, e) ==
    [w EXCEPT !.UserID = e.UserID, !.UserCheckedAt = e.CheckedAt]

\* variant: a terminated session takes no further password check
reducePasswordChecked_UnlessTerminated(w, e) ==
    IF w.State = SessionStateTerminated THEN w
    ELSE [w EXCEPT !.PasswordCheckedAt = e.CheckedAt]

reducePasswordChecked(w, e) == [w EXCEPT !.PasswordCheckedAt = e.CheckedAt]

\* variant: the intent check writes the field of the password check
reduceIntentChecked_PasswordField(w, e) ==
    [w EXCEPT !.PasswordCheckedAt = e.CheckedAt]

reduceIntentChecked(w, e) == [w EXCEPT !.IntentCheckedAt = e.CheckedAt]

\* variant: a new challenge keeps the relying party of the outstanding one
reduceWebAuthNChallenged_Merge(w, e) ==
    [w EXCEPT !.WebAuthNChallenge =
        << [Challenge          |-> e.Payload.Challenge,
            AllowedCrentialIDs |-> e.Payload.AllowedCrentialIDs,
            UserVerification   |-> e.Payload.UserVerification,
            RPID               |-> IF w.WebAuthNChallenge = Nil
                                   THEN e.Payload.RPID
                                   ELSE w.WebAuthNChallenge[1].RPID] >>]

reduceWebAuthNChallenged(w, e) ==
    [w EXCEPT !.WebAuthNChallenge =
        << [Challenge          |-> e.Payload.Challenge,
            AllowedCrentialIDs |-> e.Payload.AllowedCrentialIDs,
            UserVerification   |-> e.Payload.UserVerification,
            RPID               |-> e.Payload.RPID] >>]

\* variant: a user verification, once seen, is kept
reduceWebAuthNChecked_StickyVerified(w, e) ==
    [w EXCEPT !.WebAuthNChallenge = Nil,
              !.WebAuthNCheckedAt = e.CheckedAt,
              !.WebAuthNUserVerified = w.WebAuthNUserVerified \/ e.UserVerified]

\* variant: the check leaves the challenge in place
reduceWebAuthNChecked_KeepsChallenge(w, e) ==
    [w EXCEPT !.WebAuthNCheckedAt = e.CheckedAt,
              !.WebAuthNUserVerified = e.UserVerified]

reduceWebAuthNChecked(w, e) ==
    [w EXCEPT !.WebAuthNChallenge = Nil,
              !.WebAuthNCheckedAt = e.CheckedAt,
              !.WebAuthNUserVerified = e.UserVerified]

\* variant: the timestamp only moves forward
reduceTOTPChecked_OnlyLater(w, e) ==
    [w EXCEPT !.TOTPCheckedAt =
        IF e.CheckedAt > w.TOTPCheckedAt THEN e.CheckedAt ELSE w.TOTPCheckedAt]

reduceTOTPChecked(w, e) == [w EXCEPT !.TOTPCheckedAt = e.CheckedAt]

reduceTokenSet(w, e) == [w EXCEPT !.TokenID = e.TokenID]

\* variant: a second terminate event reopens the session
reduceTerminate_Toggle(w) ==
    [w EXCEPT !.State = IF w.State = SessionStateTerminated
                        THEN SessionStateActive ELSE SessionStateTerminated]

\* variant: terminate writes the state constant of reduceAdded
reduceTerminate_Active(w) == [w EXCEPT !.State = SessionStateActive]

reduceTerminate(w) == [w EXCEPT !.State = SessionStateTerminated]

\* The body of the loop of Reduce: the type switch over one event.  Types
\* without a case (MetadataSetEvent among them) leave the model as it is.
ReduceEvent(w, e) ==
    CASE e.type = "AddedEvent" -> reduceAdded(w, e)
      [] e.type = "UserCheckedEvent" -> reduceUserChecked(w, e)
      [] e.type = "PasswordCheckedEvent" -> reducePasswordChecked(w, e)
      [] e.type = "IntentCheckedEvent" -> reduceIntentChecked(w, e)
      [] e.type = "WebAuthNChallengedEvent" -> reduceWebAuthNChallenged(w, e)
      [] e.type = "WebAuthNCheckedEvent" -> reduceWebAuthNChecked(w, e)
      [] e.type = "TOTPCheckedEvent" -> reduceTOTPChecked(w, e)
      [] e.type = "TokenSetEvent" -> reduceTokenSet(w, e)
      [] e.type = "TerminateEvent" -> reduceTerminate(w)
      [] OTHER -> w

\* variant: the loop ends at the first terminate event of the buffer
RECURSIVE ReduceEvents_StopAtTerminate(_, _)
ReduceEvents_StopAtTerminate(w, events) ==
    IF events = <<>> THEN w
    ELSE IF Head(events).type = "TerminateEvent"
         THEN ReduceEvent(w, Head(events))
         ELSE ReduceEvents_StopAtTerminate(ReduceEvent(w, Head(events)),
                                           Tail(events))

\* the types the switch of Reduce has a case for
InterpretedTypes ==
    {"AddedEvent", "UserCheckedEvent", "PasswordCheckedEvent",
     "IntentCheckedEvent", "WebAuthNChallengedEvent", "WebAuthNCheckedEvent",
     "TOTPCheckedEvent", "TokenSetEvent", "TerminateEvent"}

\* variant: the loop ends at the first event of a type without a case
RECURSIVE ReduceEvents_StopAtUnknown(_, _)
ReduceEvents_StopAtUnknown(w, events) ==
    IF events = <<>> THEN w
    ELSE IF Head(events).type \notin InterpretedTypes
         THEN w
         ELSE ReduceEvents_StopAtUnknown(ReduceEvent(w, Head(events)),
                                         Tail(events))

\* for _, event := range wm.Events { switch ... }
RECURSIVE ReduceEvents(_, _)
ReduceEvents(w, events) ==
    IF events = <<>> THEN w
    ELSE ReduceEvents(ReduceEvent(w, Head(events)), Tail(events))

\* eventstore.WriteModel.Reduce: records the position of the last buffered
\* event and empties the buffer; it reports no error.
WriteModelReduce(w) ==
    IF w.Events = <<>> THEN w
    ELSE [w EXCEPT !.ProcessedSequence = w.Events[Len(w.Events)].Sequence,
                   !.Events = <<>>]

WriteModelReduceErr(w) == "nil"

\* SessionWriteModel.Reduce: the model after the call, and its return value.
Reduce(w) == WriteModelReduce(ReduceEvents(w, w.Events))

ReduceErr(w) == WriteModelReduceErr(ReduceEvents(w, w.Events))

\* eventstore.WriteModel.AppendEvents
AppendEvents(w, e) == [w EXCEPT !.Events = Append(w.Events, e)]

\* ------------------------------------------------------- derived queries
After(t, u) == t > u
IsZero(t) == t = ZeroTime

RECURSIVE LatestOf(_, _)
LatestOf(checks, authTime) ==
    IF checks = <<>> THEN authTime
    ELSE LatestOf(Tail(checks),
                  IF After(Head(checks), authTime) THEN Head(checks) ELSE authTime)

\* the last of the checks that is set, without comparing them
RECURSIVE LastSetOf(_, _)
LastSetOf(checks, authTime) ==
    IF checks = <<>> THEN authTime
    ELSE LastSetOf(Tail(checks),
                   IF ~IsZero(Head(checks)) THEN Head(checks) ELSE authTime)

\* variant: every set check replaces the result
AuthenticationTime_LastSet(w) ==
    LastSetOf(<<w.PasswordCheckedAt, w.WebAuthNCheckedAt,
                w.TOTPCheckedAt, w.IntentCheckedAt>>, ZeroTime)

\* variant: the intent check is left out of the list
AuthenticationTime_NoIntent(w) ==
    LatestOf(<<w.PasswordCheckedAt, w.WebAuthNCheckedAt, w.TOTPCheckedAt>>,
             ZeroTime)

AuthenticationTime(w) ==
    LatestOf(<<w.PasswordCheckedAt, w.WebAuthNCheckedAt,
               w.TOTPCheckedAt, w.IntentCheckedAt>>, ZeroTime)

\* variant: the condition of the password factor is inverted
AuthMethodTypes_InvertedPassword(w) ==
    LET t0 == <<>>
        t1 == IF IsZero(w.PasswordCheckedAt)
              THEN Append(t0, UserAuthMethodTypePassword) ELSE t0
        t2 == IF ~IsZero(w.WebAuthNCheckedAt)
              THEN IF w.WebAuthNUserVerified
                   THEN Append(t1, UserAuthMethodTypePasswordless)
                   ELSE Append(t1, UserAuthMethodTypeU2F)
              ELSE t1
        t3 == IF ~IsZero(w.IntentCheckedAt)
              THEN Append(t2, UserAuthMethodTypeIDP) ELSE t2
        t4 == IF ~IsZero(w.TOTPCheckedAt)
              THEN Append(t3, UserAuthMethodTypeTOTP) ELSE t3
    IN  t4

\* variant: the two webauthn factors are exchanged
AuthMethodTypes_Swapped(w) ==
    LET t0 == <<>>
        t1 == IF ~IsZero(w.PasswordCheckedAt)
              THEN Append(t0, UserAuthMethodTypePassword) ELSE t0
        t2 == IF ~IsZero(w.WebAuthNCheckedAt)
              THEN IF w.WebAuthNUserVerified
                   THEN Append(t1, UserAuthMethodTypeU2F)
                   ELSE Append(t1, UserAuthMethodTypePasswordless)
              ELSE t1
        t3 == IF ~IsZero(w.IntentCheckedAt)
              THEN Append(t2, UserAuthMethodTypeIDP) ELSE t2
        t4 == IF ~IsZero(w.TOTPCheckedAt)
              THEN Append(t3, UserAuthMethodTypeTOTP) ELSE t3
    IN  t4

AuthMethodTypes(w) ==
    LET t0 == <<>>
        t1 == IF ~IsZero(w.PasswordCheckedAt)
              THEN Append(t0, UserAuthMethodTypePassword) ELSE t0
        t2 == IF ~IsZero(w.WebAuthNCheckedAt)
              THEN IF w.WebAuthNUserVerified
                   THEN Append(t1, UserAuthMethodTypePasswordless)
                   ELSE Append(t1, UserAuthMethodTypeU2F)
              ELSE t1
        t3 == IF ~IsZero(w.IntentCheckedAt)
              THEN Append(t2, UserAuthMethodTypeIDP) ELSE t2
        t4 == IF ~IsZero(w.TOTPCheckedAt)
              THEN Append(t3, UserAuthMethodTypeTOTP) ELSE t3
    IN  t4

\* ------------------------------------------------------------------ query
\* session.AggregateType
AggregateType == "session"

\* the event types Query asks the event store for, in the order of the call
QueryEventTypes ==
    << "AddedType", "UserCheckedType", "PasswordCheckedType",
       "IntentCheckedType", "WebAuthNChallengedType", "WebAuthNCheckedType",
       "TOTPCheckedType", "TokenSetType", "MetadataSetType", "TerminateType" >>

\* variant: the resource owner filter is added whatever the owner is
Query_AlwaysOwner(w) ==
    [ Columns        |-> "ColumnsEvent",
      AggregateTypes |-> <<AggregateType>>,
      AggregateIDs   |-> <<w.AggregateID>>,
      EventTypes     |-> QueryEventTypes,
      ResourceOwner  |-> <<w.ResourceOwner>> ]

\* SessionWriteModel.Query: the filters of the search query it builds.  The
\* field ResourceOwner is <<>> without an owner filter and <<o>> with the
\* filter owner = o.
Query(w) ==
    [ Columns        |-> "ColumnsEvent",
      AggregateTypes |-> <<AggregateType>>,
      AggregateIDs   |-> <<w.AggregateID>>,
      EventTypes     |-> QueryEventTypes,
      ResourceOwner  |-> IF w.ResourceOwner # ""
                         THEN <<w.ResourceOwner>> ELSE <<>> ]

\* -------------------------------------------------------------- commands
\* the command executions that work on the session at the same time
Cmds == {"c1", "c2"}

NoCommands == [c \in Cmds |-> [pc |-> "start", observed |-> 0]]

\* the position of the last event of a stream, 0 for an empty stream
LastPosition(st) == IF st = <<>> THEN 0 ELSE st[Len(st)].Sequence

\* the events a command decides to append at position n
CommandEvents(c, n) ==
    { [type |-> "TerminateEvent", Sequence |-> n, writer |-> c],
      [type |-> "PasswordCheckedEvent", Sequence |-> n, writer |-> c,
       CheckedAt |-> MaxTime] }

\* variant: the event log appends without looking at the expected position
PushEvent_Unconditional(st, e, expected) ==
    [store |-> Append(st, e), result |-> "ok"]

\* The append contract of the event log: the event is appended if no event
\* is newer than the position the writer last observed, else the writer
\* gets a conflict.
PushEvent(st, e, expected) ==
    IF LastPosition(st) = expected
    THEN [store |-> Append(st, e), result |-> "ok"]
    ELSE [store |-> st, result |-> "conflict"]

\* The load of a command: its own fresh write model, the stream of the
\* aggregate appended to it and reduced.
LoadedModel(st) ==
    Reduce([NewSessionWriteModel(TheSessionID, TheResourceOwner)
                EXCEPT !.Events = st])

\* --------------------------------------------------------------- actions
Init ==
    /\ wm = NewSessionWriteModel(TheSessionID, TheResourceOwner)
    /\ log = <<>>
    /\ reduceErr = "none"
    /\ batches = <<>>
    /\ store = <<>>
    /\ cmd = NoCommands
    /\ outcomes = {}

\* The caller hands the next event of the aggregate's stream to the model.
DoAppendEvents ==
    /\ Len(log) < MaxEvents
    /\ \E e \in EventsAt(Len(log) + 1) :
          /\ wm' = AppendEvents(wm, e)
          /\ log' = Append(log, e)
    /\ UNCHANGED <<reduceErr, batches, store, cmd, outcomes>>

\* The caller calls Reduce on the model.
DoReduce ==
    /\ wm' = Reduce(wm)
    /\ reduceErr' = ReduceErr(wm)
    /\ batches' = IF wm.Events = <<>> THEN batches
                  ELSE Append(batches, Len(wm.Events))
    /\ UNCHANGED <<log, store, cmd, outcomes>>

Next == DoAppendEvents \/ DoReduce

Spec == Init /\ [][Next]_vars

\* The write model is created for any session and any resource owner, the
\* unknown owner "" among them.
InitQuery ==
    /\ \E sessionID \in SessionIDs : \E resourceOwner \in ResourceOwners :
          wm = NewSessionWriteModel(sessionID, resourceOwner)
    /\ log = <<>>
    /\ reduceErr = "none"
    /\ batches = <<>>
    /\ store = <<>>
    /\ cmd = NoCommands
    /\ outcomes = {}

SpecQuery == InitQuery /\ [][Next]_vars

\* The session exists: its stream holds the added event.
InitAppend ==
    /\ wm = NewSessionWriteModel(TheSessionID, TheResourceOwner)
    /\ log = <<>>
    /\ reduceErr = "none"
    /\ batches = <<>>
    /\ store = <<[type |-> "AddedEvent", Sequence |-> 1, writer |-> "none"]>>
    /\ cmd = NoCommands
    /\ outcomes = {}

\* A command execution starts its cycle, again after a conflict: it loads the
\* stream into a fresh model and keeps the position the model saw.
CmdLoad(c) ==
    /\ cmd[c].pc \in {"start", "conflict", "done"}
    /\ cmd' = [cmd EXCEPT ![c] = [pc |-> "loaded",
                                  observed |-> LoadedModel(store).ProcessedSequence]]
    /\ UNCHANGED <<wm, log, reduceErr, batches, store, outcomes>>

\* The command appends the event it decided on, conditioned on the position
\* it observed.
CmdAppend(c) ==
    /\ cmd[c].pc = "loaded"
    /\ cmd[c].observed < MaxEvents
    /\ \E e \in CommandEvents(c, cmd[c].observed + 1) :
          LET r == PushEvent(store, e, cmd[c].observed)
          IN  /\ store' = r.store
              /\ cmd' = [cmd EXCEPT ![c].pc =
                            IF r.result = "ok" THEN "done" ELSE "conflict"]
              /\ outcomes' = outcomes \cup
                    {[cmd |-> c, observed |-> cmd[c].observed, result |-> r.result]}
    /\ UNCHANGED <<wm, log, reduceErr, batches>>

NextAppend == \E c \in Cmds : CmdLoad(c) \/ CmdAppend(c)

SpecAppend == InitAppend /\ [][NextAppend]_vars

\* ------------------------------------------------- reading the event log
\* every event handed to the model has been folded
Reduced == wm.Events = <<>>

IndicesOf(type) == {i \in 1..Len(log) : log[i].type = type}

\* position in the log of the last event of the type, 0 when there is none
LastOf(type) ==
    IF IndicesOf(type) = {} THEN 0
    ELSE CHOOSE i \in IndicesOf(type) : \A j \in IndicesOf(type) : j <= i

\* position in the log of the first event of the type, 0 when there is none
FirstOf(type) ==
    IF IndicesOf(type) = {} THEN 0
    ELSE CHOOSE i \in IndicesOf(type) : \A j \in IndicesOf(type) : i <= j

MaxOf(S) == CHOOSE x \in S : \A y \in S : y <= x

CheckTypes ==
    {"PasswordCheckedEvent", "WebAuthNCheckedEvent", "TOTPCheckedEvent",
     "IntentCheckedEvent"}

\* the timestamp field a check event of the type writes
CheckedAtOf(w, type) ==
    CASE type = "PasswordCheckedEvent" -> w.PasswordCheckedAt
      [] type = "WebAuthNCheckedEvent" -> w.WebAuthNCheckedAt
      [] type = "TOTPCheckedEvent" -> w.TOTPCheckedAt
      [] type = "IntentCheckedEvent" -> w.IntentCheckedAt

\* the factor AuthMethodTypes reports for a check of the type
FactorOf(w, type) ==
    CASE type = "PasswordCheckedEvent" -> UserAuthMethodTypePassword
      [] type = "WebAuthNCheckedEvent" ->
            IF w.WebAuthNUserVerified
            THEN UserAuthMethodTypePasswordless ELSE UserAuthMethodTypeU2F
      [] type = "TOTPCheckedEvent" -> UserAuthMethodTypeTOTP
      [] type = "IntentCheckedEvent" -> UserAuthMethodTypeIDP

\* the next position of the stream
NextSeq == Len(log) + 1

\* --------------------------------------------------------------- claims

\* C1: challenge exclusivity.  Whenever the folded log ends in a
\* webauthn-checked event, WebAuthNChallenge is nil, however many
\* webauthn-challenged events came before it.
C1_ChallengeExclusivity ==
    (Reduced /\ log # <<>> /\ log[Len(log)].type = "WebAuthNCheckedEvent")
        => wm.WebAuthNChallenge = Nil

\* two challenges, then the check, all folded
C1_Witness ==
    /\ Reduced
    /\ Len(log) = 3
    /\ log[1].type = "WebAuthNChallengedEvent"
    /\ log[2].type = "WebAuthNChallengedEvent"
    /\ log[1].Payload # log[2].Payload
    /\ log[3].type = "WebAuthNCheckedEvent"
    /\ wm.WebAuthNChallenge = Nil

\* C2 as stated: folding any further check event, with any CheckedAt
\* payload, never decreases AuthenticationTime().
C2_MonotonicAnyPayload ==
    \A e \in CheckEvents(NextSeq) :
        AuthenticationTime(ReduceEvent(wm, e)) >= AuthenticationTime(wm)

\* C2 as amended: folding a further check event whose CheckedAt is not
\* earlier than the timestamp already stored for its own kind never
\* decreases AuthenticationTime().
C2_MonotonicInOrder ==
    \A e \in CheckEvents(NextSeq) :
        e.CheckedAt >= CheckedAtOf(wm, e.type)
            => AuthenticationTime(ReduceEvent(wm, e)) >= AuthenticationTime(wm)

\* a later check of another kind with an earlier-or-equal time was folded
\* after a check, and the authentication time stayed at the maximum
C2_Witness ==
    /\ Reduced
    /\ Len(log) = 3
    /\ log[1].type = "PasswordCheckedEvent" /\ log[1].CheckedAt = 1
    /\ log[2].type = "PasswordCheckedEvent" /\ log[2].CheckedAt = 2
    /\ log[3].type = "TOTPCheckedEvent" /\ log[3].CheckedAt = 1
    /\ AuthenticationTime(wm) = 2

\* C3 as stated: no single event lowers State, and terminated is absorbing
\* under every later event of any kind.
C3_StateOnlyForward ==
    \A e \in EventsAt(NextSeq) :
        LET n == ReduceEvent(wm, e)
        IN  /\ n.State >= wm.State
            /\ wm.State = SessionStateTerminated => n.State = SessionStateTerminated

\* the state the log determines: that of the last added or terminate event
StateOfLog ==
    IF LastOf("AddedEvent") = 0 /\ LastOf("TerminateEvent") = 0
    THEN SessionStateUnspecified
    ELSE IF LastOf("AddedEvent") > LastOf("TerminateEvent")
         THEN SessionStateActive ELSE SessionStateTerminated

\* C3 as amended: an added event sets State to active whatever it was, a
\* terminate event sets it to terminated, every other event leaves it as it
\* is; so no event other than added lowers State, and terminated stays
\* terminated under every later event other than added.
C3_StateForwardExceptAdded ==
    /\ \A e \in EventsAt(NextSeq) :
          LET n == ReduceEvent(wm, e)
          IN  /\ e.type = "AddedEvent" => n.State = SessionStateActive
              /\ e.type = "TerminateEvent" => n.State = SessionStateTerminated
              /\ e.type \notin {"AddedEvent", "TerminateEvent"} => n.State = wm.State
              /\ e.type # "AddedEvent" => n.State >= wm.State
              /\ (e.type # "AddedEvent" /\ wm.State = SessionStateTerminated)
                    => n.State = SessionStateTerminated
    /\ Reduced => wm.State = StateOfLog

\* added, terminate, added: the session is active again
C3_Witness ==
    /\ Reduced
    /\ Len(log) = 3
    /\ log[1].type = "AddedEvent"
    /\ log[2].type = "TerminateEvent"
    /\ log[3].type = "AddedEvent"
    /\ wm.State = SessionStateActive

\* the keys the metadata-set events of the log set
KeysSet == {log[i].Key : i \in IndicesOf("MetadataSetEvent")}

LastValueOf(k) ==
    LET I == {i \in IndicesOf("MetadataSetEvent") : log[i].Key = k}
    IN  log[MaxOf(I)].Value

\* C4: after Reduce, Metadata holds exactly the keys the metadata-set events
\* set, each mapped to the value of the last metadata-set event for it.
C4_MetadataUpsert ==
    Reduced =>
        /\ DOMAIN wm.Metadata = KeysSet
        /\ \A k \in KeysSet : wm.Metadata[k] = LastValueOf(k)

\* C5 as stated: UserID is that of the first user-checked event of the log.
C5_UserIDFirstWriterWins ==
    (Reduced /\ FirstOf("UserCheckedEvent") # 0)
        => wm.UserID = log[FirstOf("UserCheckedEvent")].UserID

\* C5 as amended: UserID is last-writer-wins; after Reduce it is the user id
\* of the last user-checked event, and a later user-checked event with a
\* different user id replaces it.
C5_UserIDLastWriterWins ==
    /\ (Reduced /\ LastOf("UserCheckedEvent") # 0)
          => wm.UserID = log[LastOf("UserCheckedEvent")].UserID
    /\ \A e \in UserCheckedEvents(NextSeq) : ReduceEvent(wm, e).UserID = e.UserID

\* two user-checked events with different user ids were folded
C5_Witness ==
    /\ Reduced
    /\ Len(log) >= 2
    /\ log[1].type = "UserCheckedEvent" /\ log[1].UserID = "u1"
    /\ log[2].type = "UserCheckedEvent" /\ log[2].UserID = "u2"
    /\ LastOf("UserCheckedEvent") = 2
    /\ wm.UserID = "u2"

\* C6: AuthenticationTime() is the maximum of the four check timestamps
\* PasswordCheckedAt, WebAuthNCheckedAt, TOTPCheckedAt and IntentCheckedAt,
\* the zero time when none is set, and UserCheckedAt does not contribute.
C6_AuthenticationTimeIsMax ==
    LET four == {wm.PasswordCheckedAt, wm.WebAuthNCheckedAt,
                 wm.TOTPCheckedAt, wm.IntentCheckedAt}
    IN  /\ AuthenticationTime(wm) = MaxOf(four)
        /\ four = {ZeroTime} => AuthenticationTime(wm) = ZeroTime
        /\ \A t \in Times :
              AuthenticationTime([wm EXCEPT !.UserCheckedAt = t])
                  = AuthenticationTime(wm)

\* scenario 1 with a user check later than the password check
C6_Witness ==
    /\ Reduced
    /\ Len(log) = 3
    /\ log[1].type = "AddedEvent"
    /\ log[2].type = "UserCheckedEvent" /\ log[2].CheckedAt = 2
    /\ log[3].type = "PasswordCheckedEvent" /\ log[3].CheckedAt = 1
    /\ wm.UserCheckedAt = 2
    /\ AuthenticationTime(wm) = 1

\* the factor a set webauthn check is reported as
WebAuthNFactor(w) ==
    IF w.WebAuthNUserVerified
    THEN UserAuthMethodTypePasswordless ELSE UserAuthMethodTypeU2F

\* <<x>> when the timestamp is set, nothing otherwise
IfSet(t, x) == IF t # ZeroTime THEN <<x>> ELSE <<>>

\* C7: AuthMethodTypes() lists, in the order password, webauthn, intent
\* (IDP), totp, exactly the factors whose timestamp is non-zero, webauthn as
\* passwordless when WebAuthNUserVerified and as U2F otherwise; added,
\* challenged, checked(verified) yields passwordless alone and added,
\* challenged, checked(not verified) yields U2F alone.
C7_AuthMethodTypes ==
    /\ AuthMethodTypes(wm) =
          IfSet(wm.PasswordCheckedAt, UserAuthMethodTypePassword)
              \o IfSet(wm.WebAuthNCheckedAt, WebAuthNFactor(wm))
              \o IfSet(wm.IntentCheckedAt, UserAuthMethodTypeIDP)
              \o IfSet(wm.TOTPCheckedAt, UserAuthMethodTypeTOTP)
    /\ (/\ Reduced
        /\ Len(log) = 3
        /\ log[1].type = "AddedEvent"
        /\ log[2].type = "WebAuthNChallengedEvent"
        /\ log[3].type = "WebAuthNCheckedEvent"
        /\ log[3].CheckedAt # ZeroTime)
          => AuthMethodTypes(wm) =
                IF log[3].UserVerified
                THEN <<UserAuthMethodTypePasswordless>>
                ELSE <<UserAuthMethodTypeU2F>>

\* scenario 3 was folded: a check that did not verify the user counts as U2F
C7_Witness ==
    /\ Reduced
    /\ Len(log) = 3
    /\ log[1].type = "AddedEvent"
    /\ log[2].type = "WebAuthNChallengedEvent"
    /\ log[3].type = "WebAuthNCheckedEvent"
    /\ log[3].CheckedAt # ZeroTime
    /\ ~log[3].UserVerified
    /\ AuthMethodTypes(wm) = <<UserAuthMethodTypeU2F>>

\* the whole log loaded into a fresh model and reduced in one call
ReducedInOneCall ==
    Reduce([NewSessionWriteModel(wm.AggregateID, wm.ResourceOwner)
                EXCEPT !.Events = log])

\* C8: Reduce is batching-independent.  However the log was split into the
\* batches that were loaded and reduced one after another, once every event
\* is folded the model equals the one a single Reduce over the whole log
\* yields on a fresh model.
C8_BatchingIndependent ==
    Reduced => wm = ReducedInOneCall

\* the log was folded in two batches, the first of one event and the second
\* of two
C8_Witness ==
    /\ Reduced
    /\ Len(log) = 3
    /\ batches = <<1, 2>>
    /\ log[1].type = "WebAuthNChallengedEvent"
    /\ log[2].type = "WebAuthNCheckedEvent" /\ log[2].CheckedAt = 2
    /\ log[3].type = "UserCheckedEvent" /\ log[3].UserID = "u1"
    /\ wm.ProcessedSequence = 3
    /\ wm.WebAuthNCheckedAt = 2
    /\ wm.UserID = "u1"

\* C9: the reducer keeps folding after termination.  When the last terminate
\* event of the folded log has no added event after it, State is terminated
\* and every check event after it still set its timestamp, which
\* AuthenticationTime() and AuthMethodTypes() reflect; and folding a further
\* password check after added, password-checked(t1), terminate leaves
\* State terminated and moves PasswordCheckedAt to the new time.
C9_KeepsFoldingAfterTerminate ==
    /\ (Reduced /\ LastOf("TerminateEvent") > LastOf("AddedEvent")) =>
          /\ wm.State = SessionStateTerminated
          /\ \A type \in CheckTypes :
                LastOf(type) > LastOf("TerminateEvent") =>
                    /\ CheckedAtOf(wm, type) = log[LastOf(type)].CheckedAt
                    /\ AuthenticationTime(wm) >= log[LastOf(type)].CheckedAt
                    /\ log[LastOf(type)].CheckedAt # ZeroTime =>
                          \E i \in 1..Len(AuthMethodTypes(wm)) :
                              AuthMethodTypes(wm)[i] = FactorOf(wm, type)
    /\ (/\ Reduced
        /\ Len(log) = 3
        /\ log[1].type = "AddedEvent"
        /\ log[2].type = "PasswordCheckedEvent"
        /\ log[3].type = "TerminateEvent") =>
          \A e \in PasswordCheckedEvents(NextSeq) :
              LET n == Reduce(AppendEvents(wm, e))
              IN  /\ n.State = SessionStateTerminated
                  /\ n.PasswordCheckedAt = e.CheckedAt
                  /\ AuthenticationTime(n) = e.CheckedAt
                  /\ AuthMethodTypes(n) =
                        IfSet(e.CheckedAt, UserAuthMethodTypePassword)

\* password-checked(1), terminate, password-checked(2) was folded
C9_Witness ==
    /\ Reduced
    /\ Len(log) = 3
    /\ log[1].type = "PasswordCheckedEvent" /\ log[1].CheckedAt = 1
    /\ log[2].type = "TerminateEvent"
    /\ log[3].type = "PasswordCheckedEvent" /\ log[3].CheckedAt = 2
    /\ wm.State = SessionStateTerminated
    /\ wm.PasswordCheckedAt = 2
    /\ AuthenticationTime(wm) = 2
    /\ AuthMethodTypes(wm) = <<UserAuthMethodTypePassword>>

\* a payload that misses a required field: a user check without user id
MissingRequiredField(e) == e.type = "UserCheckedEvent" /\ e.UserID = ""

\* the fields Reduce derives from the events
Projection(w) ==
    <<w.TokenID, w.UserID, w.UserCheckedAt, w.PasswordCheckedAt,
      w.IntentCheckedAt, w.WebAuthNCheckedAt, w.TOTPCheckedAt,
      w.WebAuthNUserVerified, w.Metadata, w.State, w.WebAuthNChallenge>>

\* C10: malformed payloads fail closed.  When a folded event misses a
\* required field, Reduce returned an error and no projection was produced
\* from the events.
C10_MalformedFailsClosed ==
    (Reduced /\ \E i \in 1..Len(log) : MissingRequiredField(log[i])) =>
        /\ reduceErr = "error"
        /\ Projection(wm)
              = Projection(NewSessionWriteModel(wm.AggregateID, wm.ResourceOwner))

\* the log without the events of a type the switch has no case for
IsKnownKind(e) == e.type # "OtherEvent"
KnownEventsOfLog == SelectSeq(log, IsKnownKind)

\* C11: unknown event kinds are skipped without error and without effect.
\* Folding an event of a kind that is not a session kind leaves every field
\* of the model as it is, Reduce reports no error, and the fold goes on with
\* the events after it: the projection is the one the log without these
\* events yields.
C11_UnknownKindSkipped ==
    /\ \A e \in OtherEvents(NextSeq) :
          /\ ReduceEvent(wm, e) = wm
          /\ Projection(Reduce(AppendEvents(wm, e))) = Projection(Reduce(wm))
          /\ ReduceErr(AppendEvents(wm, e)) = "nil"
    /\ Reduced =>
          /\ Projection(wm) =
                Projection(ReduceEvents(
                    NewSessionWriteModel(wm.AggregateID, wm.ResourceOwner),
                    KnownEventsOfLog))
          /\ (\E i \in 1..Len(log) : ~IsKnownKind(log[i])) => reduceErr = "nil"

\* an unknown event between two checks, folded in one batch: both checks are
\* in the projection
C11_Witness ==
    /\ Reduced
    /\ Len(log) = 3
    /\ batches = <<3>>
    /\ log[1].type = "PasswordCheckedEvent" /\ log[1].CheckedAt = 1
    /\ log[2].type = "OtherEvent"
    /\ log[3].type = "TOTPCheckedEvent" /\ log[3].CheckedAt = 2
    /\ wm.PasswordCheckedAt = 1
    /\ wm.TOTPCheckedAt = 2
    /\ reduceErr = "nil"

\* the log without its last event, folded on a fresh model
ProjectionOfAllButLast ==
    Projection(ReduceEvents(
        NewSessionWriteModel(wm.AggregateID, wm.ResourceOwner),
        SubSeq(log, 1, Len(log) - 1)))

\* C12: terminate is idempotent.  After any folded prefix, folding two
\* terminate events yields the projection that folding one yields, with
\* State terminated.
C12_IdempotentTerminate ==
    /\ \A t1 \in TerminateEvents(NextSeq) : \A t2 \in TerminateEvents(NextSeq + 1) :
          LET one == Reduce(AppendEvents(wm, t1))
              two == Reduce(AppendEvents(AppendEvents(wm, t1), t2))
          IN  /\ one.State = SessionStateTerminated
              /\ Projection(two) = Projection(one)
    /\ (/\ Reduced
        /\ Len(log) >= 2
        /\ log[Len(log)].type = "TerminateEvent"
        /\ log[Len(log) - 1].type = "TerminateEvent") =>
          /\ wm.State = SessionStateTerminated
          /\ Projection(wm) = ProjectionOfAllButLast

\* a check and two terminate events were folded
C12_Witness ==
    /\ Reduced
    /\ Len(log) = 3
    /\ log[1].type = "PasswordCheckedEvent" /\ log[1].CheckedAt = 1
    /\ log[2].type = "TerminateEvent"
    /\ log[3].type = "TerminateEvent"
    /\ wm.State = SessionStateTerminated
    /\ wm.PasswordCheckedAt = 1

\* C13: Query() filters on the aggregate type session, on the aggregate id of
\* the model and on exactly the ten session event types; it has a resource
\* owner filter if and only if the ResourceOwner of the model is not empty,
\* then on that owner, and never one on the empty owner.
C13_Query ==
    LET q == Query(wm)
    IN  /\ q.AggregateTypes = <<"session">>
        /\ q.AggregateIDs = <<wm.AggregateID>>
        /\ Len(q.EventTypes) = 10
        /\ {q.EventTypes[i] : i \in 1..Len(q.EventTypes)} =
              {"AddedType", "UserCheckedType", "PasswordCheckedType",
               "IntentCheckedType", "WebAuthNChallengedType",
               "WebAuthNCheckedType", "TOTPCheckedType", "TokenSetType",
               "MetadataSetType", "TerminateType"}
        /\ q.ResourceOwner # <<>> <=> wm.ResourceOwner # ""
        /\ wm.ResourceOwner # "" => q.ResourceOwner = <<wm.ResourceOwner>>
        /\ q.ResourceOwner # <<"">>

\* a model created without resource owner, after events were folded: its
\* query has no owner filter
C13_Witness ==
    /\ Reduced
    /\ Len(log) = 2
    /\ wm.AggregateID = "s2"
    /\ wm.ResourceOwner = ""
    /\ Query(wm).ResourceOwner = <<>>
    /\ Query(wm).AggregateIDs = <<"s2">>

\* C14: a model created by NewSessionWriteModel and reduced over an empty
\* event slice has State unspecified, every check timestamp zero, no
\* challenge, an empty UserID and TokenID, an empty Metadata, the zero
\* authentication time and no authentication method, and Reduce reports no
\* error.
C14_EmptyReduce ==
    /\ log = <<>> =>
          /\ Reduce(wm) = wm
          /\ ReduceErr(wm) = "nil"
    /\ (log = <<>> /\ reduceErr # "none") =>
          /\ reduceErr = "nil"
          /\ wm.State = SessionStateUnspecified
          /\ wm.UserCheckedAt = ZeroTime
          /\ wm.PasswordCheckedAt = ZeroTime
          /\ wm.IntentCheckedAt = ZeroTime
          /\ wm.WebAuthNCheckedAt = ZeroTime
          /\ wm.TOTPCheckedAt = ZeroTime
          /\ wm.WebAuthNUserVerified = FALSE
          /\ wm.WebAuthNChallenge = Nil
          /\ wm.UserID = ""
          /\ wm.TokenID = ""
          /\ DOMAIN wm.Metadata = {}
          /\ AuthenticationTime(wm) = ZeroTime
          /\ AuthMethodTypes(wm) = <<>>

\* Reduce has returned on a model that was handed no event
C14_Witness ==
    /\ log = <<>>
    /\ reduceErr = "nil"
    /\ wm.Events = <<>>
    /\ wm.State = SessionStateUnspecified
    /\ AuthMethodTypes(wm) = <<>>

\* C15: optimistic-concurrency append.  Of two command executions that
\* loaded the aggregate at the same position and both appended conditioned on
\* it, exactly one succeeded and the other got a conflict, under every
\* interleaving; and the stream never holds two events at the same position.
C15_OneAppendPerPosition ==
    /\ \A a \in outcomes : \A b \in outcomes :
          (a.cmd # b.cmd /\ a.observed = b.observed) =>
              /\ ~(a.result = "ok" /\ b.result = "ok")
              /\ a.result = "ok" \/ b.result = "ok"
    /\ \A i \in 1..Len(store) : store[i].Sequence = i

\* both commands appended on position 1: c1 succeeded, c2 got the conflict
C15_Witness ==
    /\ [cmd |-> "c1", observed |-> 1, result |-> "ok"] \in outcomes
    /\ [cmd |-> "c2", observed |-> 1, result |-> "conflict"] \in outcomes
    /\ Len(store) = 2
    /\ store[2].writer = "c1"
    /\ cmd["c2"].pc = "conflict"

\* C16: the challenge is replaced as a whole, never merged.  After Reduce,
\* WebAuthNChallenge is set if and only if the log has a webauthn-challenged
\* event with no webauthn-checked event after it, and then its four fields
\* are those of the last webauthn-challenged event.
C16_ChallengeReplaced ==
    /\ Reduced =>
          /\ wm.WebAuthNChallenge # Nil <=>
                LastOf("WebAuthNChallengedEvent") > LastOf("WebAuthNCheckedEvent")
          /\ wm.WebAuthNChallenge # Nil =>
                LET c == wm.WebAuthNChallenge[1]
                    p == log[LastOf("WebAuthNChallengedEvent")].Payload
                IN  /\ Len(wm.WebAuthNChallenge) = 1
                    /\ c.Challenge = p.Challenge
                    /\ c.AllowedCrentialIDs = p.AllowedCrentialIDs
                    /\ c.UserVerification = p.UserVerification
                    /\ c.RPID = p.RPID
    /\ \A e \in WebAuthNChallengedEvents(NextSeq) :
          ReduceEvent(wm, e).WebAuthNChallenge = <<e.Payload>>

\* two different challenges and then a token-set event were folded: every
\* field is that of the second challenge
C16_Witness ==
    /\ Reduced
    /\ Len(log) = 3
    /\ log[1].type = "WebAuthNChallengedEvent" /\ log[1].Payload.Challenge = "c1"
    /\ log[2].type = "WebAuthNChallengedEvent" /\ log[2].Payload.Challenge = "c2"
    /\ log[3].type = "TokenSetEvent"
    /\ wm.WebAuthNChallenge # Nil
    /\ wm.WebAuthNChallenge[1].Challenge = "c2"
    /\ wm.WebAuthNChallenge[1].RPID = "rp2"
    /\ wm.WebAuthNChallenge[1].AllowedCrentialIDs = <<"cred2", "cred3">>
    /\ wm.WebAuthNChallenge[1].UserVerification = "discouraged"

\* the five kinds of event that carry a CheckedAt
TimestampTypes == CheckTypes \cup {"UserCheckedEvent"}

\* the timestamp field an event of the type writes
TimestampOf(w, type) ==
    IF type = "UserCheckedEvent" THEN w.UserCheckedAt ELSE CheckedAtOf(w, type)

\* C17: check timestamps are last-writer-wins.  After Reduce, each of
\* UserCheckedAt, PasswordCheckedAt, IntentCheckedAt, WebAuthNCheckedAt and
\* TOTPCheckedAt is the CheckedAt of the last event of its kind in the log,
\* also when that is earlier than the one stored before, and the zero time
\* when the log has no event of the kind.
C17_TimestampsLastWriterWins ==
    Reduced =>
        \A type \in TimestampTypes :
            TimestampOf(wm, type) =
                IF LastOf(type) = 0 THEN ZeroTime
                ELSE log[LastOf(type)].CheckedAt

\* a password check at 2 and a later one at 1 were folded: the earlier time
\* is stored
C17_Witness ==
    /\ Reduced
    /\ Len(log) = 3
    /\ log[1].type = "PasswordCheckedEvent" /\ log[1].CheckedAt = 2
    /\ log[2].type = "UserCheckedEvent" /\ log[2].CheckedAt = 2
    /\ log[3].type = "PasswordCheckedEvent" /\ log[3].CheckedAt = 1
    /\ wm.PasswordCheckedAt = 1
    /\ wm.UserCheckedAt = 2
    /\ wm.TOTPCheckedAt = ZeroTime

\* the authentication method is among those AuthMethodTypes reports
Reports(w, method) ==
    \E i \in 1..Len(AuthMethodTypes(w)) : AuthMethodTypes(w)[i] = method

\* C18: AuthMethodTypes() never reports both passwordless and U2F, and the
\* last webauthn-checked event alone decides which: passwordless when it
\* verified the user, U2F when it did not (neither when its CheckedAt is the
\* zero time or the log has no such event), so a later check without user
\* verification downgrades passwordless to U2F and the reverse order
\* upgrades.
C18_OneWebAuthNFactor ==
    /\ ~(Reports(wm, UserAuthMethodTypePasswordless)
            /\ Reports(wm, UserAuthMethodTypeU2F))
    /\ Reduced =>
          LET last == LastOf("WebAuthNCheckedEvent")
              set == last # 0 /\ log[last].CheckedAt # ZeroTime
          IN  /\ Reports(wm, UserAuthMethodTypePasswordless)
                    <=> (set /\ log[last].UserVerified)
              /\ Reports(wm, UserAuthMethodTypeU2F)
                    <=> (set /\ ~log[last].UserVerified)

\* a check that verified the user and a later one that did not were folded:
\* the factor is U2F
C18_Witness ==
    /\ Reduced
    /\ Len(log) = 3
    /\ log[1].type = "WebAuthNChallengedEvent"
    /\ log[2].type = "WebAuthNCheckedEvent"
    /\ log[2].UserVerified /\ log[2].CheckedAt = 1
    /\ log[3].type = "WebAuthNCheckedEvent"
    /\ ~log[3].UserVerified /\ log[3].CheckedAt = 2
    /\ AuthMethodTypes(wm) = <<UserAuthMethodTypeU2F>>

\* the kinds of event that are no authentication check
NoCheckTypes ==
    {"AddedEvent", "UserCheckedEvent", "WebAuthNChallengedEvent",
     "TokenSetEvent", "TerminateEvent"}

\* C19: the two derived queries agree.  AuthenticationTime() is not the zero
\* time if and only if AuthMethodTypes() is not empty; a session that folded
\* only added, user-checked, webauthn-challenged, token-set and terminate
\* events has the zero authentication time and no factor.
C19_QueriesAgree ==
    /\ AuthenticationTime(wm) # ZeroTime <=> AuthMethodTypes(wm) # <<>>
    /\ (Reduced /\ \A i \in 1..Len(log) : log[i].type \in NoCheckTypes) =>
          /\ AuthenticationTime(wm) = ZeroTime
          /\ AuthMethodTypes(wm) = <<>>

\* a user check, a challenge and a token were folded: the user is checked
\* but not authenticated
C19_Witness ==
    /\ Reduced
    /\ Len(log) = 3
    /\ log[1].type = "UserCheckedEvent" /\ log[1].CheckedAt = 2
    /\ log[2].type = "WebAuthNChallengedEvent"
    /\ log[3].type = "TokenSetEvent"
    /\ wm.UserCheckedAt = 2
    /\ AuthenticationTime(wm) = ZeroTime
    /\ AuthMethodTypes(wm) = <<>>

\* the fields of the model an event of the type may write
OwnFields(type) ==
    CASE type \in {"AddedEvent", "TerminateEvent"} -> {"State"}
      [] type = "PasswordCheckedEvent" -> {"PasswordCheckedAt"}
      [] type = "IntentCheckedEvent" -> {"IntentCheckedAt"}
      [] type = "TOTPCheckedEvent" -> {"TOTPCheckedAt"}
      [] type = "UserCheckedEvent" -> {"UserID", "UserCheckedAt"}
      [] type = "TokenSetEvent" -> {"TokenID"}
      [] type = "WebAuthNChallengedEvent" -> {"WebAuthNChallenge"}
      [] type = "WebAuthNCheckedEvent" ->
            {"WebAuthNChallenge", "WebAuthNCheckedAt", "WebAuthNUserVerified"}

\* C20: each interpreted event changes only its own fields.  Folding an
\* event of one of the nine interpreted kinds leaves every field of the
\* model that is not a field of its kind as it was, and token-set stores its
\* token id.
C20_Frame ==
    \A e \in EventsAt(NextSeq) :
        e.type \in InterpretedTypes =>
            LET n == ReduceEvent(wm, e)
            IN  /\ DOMAIN n = DOMAIN wm
                /\ \A f \in DOMAIN wm \ OwnFields(e.type) : n[f] = wm[f]
                /\ e.type = "TokenSetEvent" => n.TokenID = e.TokenID

\* three events of different kinds were folded: each left the fields of the
\* others in place
C20_Witness ==
    /\ Reduced
    /\ Len(log) = 3
    /\ log[1].type = "UserCheckedEvent"
    /\ log[1].UserID = "u1" /\ log[1].CheckedAt = 1
    /\ log[2].type = "TokenSetEvent" /\ log[2].TokenID = "tok1"
    /\ log[3].type = "IntentCheckedEvent" /\ log[3].CheckedAt = 2
    /\ wm.UserID = "u1"
    /\ wm.UserCheckedAt = 1
    /\ wm.TokenID = "tok1"
    /\ wm.IntentCheckedAt = 2
    /\ wm.PasswordCheckedAt = ZeroTime
    /\ wm.State = SessionStateUnspecified

====
